---- MODULE Spec2Model ----
(***************************************************************************)
(* JETSCAPE-analysis: the ASCII event reader (reader_ascii.py) and the     *)
(* analysis driver (analyze_events_base.py).                               *)
(*                                                                         *)
(* Two specifications share the variables:                                 *)
(*   SpecReader  one ReaderAscii built from a hadron file and a parton     *)
(*               file, then called for n_events events;                    *)
(*   Spec        one run of AnalyzeJetscapeEvents_Base over the grid of    *)
(*               parameter combinations.                                   *)
(***************************************************************************)
EXTENDS Integers, Sequences, FiniteSets, TLC

(***************************************************************************)
(* Bounds of the model.                                                    *)
(***************************************************************************)
MaxLines == 3        \* longest file given to a ReaderAscii alone, in lines
MaxBinLines == 2     \* longest input file of a grid point of a run, in lines
MaxEvents == 2       \* largest n_event_max / n_events requested

(***************************************************************************)
(* Input files.  A file is a sequence of lines; a line is one of           *)
(*   hdr   : an event header line, "#  Event ..."                          *)
(*   ptl   : a particle line, whitespace separated numbers                 *)
(*   xsec  : the cross-section metadata line carrying the value val:       *)
(*           "#  sigmaGen  <val> ..." in the ascii format (a line that     *)
(*           starts with '#'), "A 0 GenCrossSection <val> ..." in HepMC.   *)
(***************************************************************************)
XsecValues == {1, 2}

HdrLine == [kind |-> "hdr", val |-> 0]
PtlLine == [kind |-> "ptl", val |-> 0]
XsecLine(v) == [kind |-> "xsec", val |-> v]

SeqsUpTo(S, n) == UNION {[1..k -> S] : k \in 0..n}

\* line.startswith('#') on a line of an ascii file
StartsWithHash(line) == line.kind \in {"hdr", "xsec"}

NoFile == [exists |-> FALSE, lines |-> <<>>]
FileOf(ls) == [exists |-> TRUE, lines |-> ls]

(***************************************************************************)
(* ReaderAscii.parse_event.  A parsed event is None or a list of particle  *)
(* records; the record parsed from line i of a file is written i.          *)
(***************************************************************************)
NoneEvent == [tag |-> "None", recs |-> <<>>]
ListEvent(rs) == [tag |-> "list", recs |-> rs]
EmptyStr == [tag |-> "str", recs |-> <<>>]          \* the '' of next_event

\* Python truth value of the local `event` (None and [] are falsy)
Truthy(event) == event.tag = "list" /\ Len(event.recs) > 0

\* `if event: event_list.append(event)` on a marker line
AppendOnMarker(event_list, event) ==
    IF Truthy(event) THEN Append(event_list, event) ELSE event_list

RECURSIVE ParseLines(_, _, _, _)
ParseLines(lines, i, event_list, event) ==
    IF i > Len(lines)
    THEN [ok |-> TRUE, list |-> Append(event_list, event)]
    ELSE IF StartsWithHash(lines[i])
         THEN ParseLines(lines, i + 1, AppendOnMarker(event_list, event), ListEvent(<<>>))
         ELSE IF event.tag = "None"
              THEN [ok |-> FALSE, list |-> <<>>]   \* None.append: AttributeError
              ELSE ParseLines(lines, i + 1, event_list,
                              ListEvent(Append(event.recs, i)))

parse_event(file) ==
    IF ~file.exists
    THEN [ok |-> FALSE, list |-> <<>>]             \* open() raises
    ELSE ParseLines(file.lines, 1, <<>>, NoneEvent)

(***************************************************************************)
(* ReaderAscii.__init__ and next_event.                                    *)
(***************************************************************************)
NoReader ==
    [type |-> "none", event_list_hadrons |-> <<>>,
     event_list_partons |-> [none |-> TRUE, list |-> <<>>],
     current_event |-> 0, n_events |-> 0]

\* the hadron/parton check of the constructor: TRUE when it calls sys.exit
CountMismatch(hadrons, partons) == Len(hadrons) # Len(partons)

ReaderAsciiInit(input_file_hadrons, input_file_partons) ==
    LET h == parse_event(input_file_hadrons)
        p == parse_event(input_file_partons)
    IN  IF ~h.ok THEN [fatal |-> "open_or_parse", reader |-> NoReader]
        ELSE IF input_file_partons.exists /\ ~p.ok
             THEN [fatal |-> "open_or_parse", reader |-> NoReader]
        ELSE IF input_file_hadrons.exists /\ input_file_partons.exists
                /\ CountMismatch(h.list, p.list)
             THEN [fatal |-> "sys_exit_mismatch", reader |-> NoReader]
        ELSE [fatal |-> "",
              reader |-> [type |-> "dat",
                          event_list_hadrons |-> h.list,
                          event_list_partons |->
                              IF input_file_partons.exists
                              THEN [none |-> FALSE, list |-> p.list]
                              ELSE [none |-> TRUE, list |-> <<>>],
                          current_event |-> 0,
                          n_events |-> Len(h.list)]]

EventAscii(event_hadrons, event_partons) ==
    [falsy |-> FALSE, hadrons |-> event_hadrons, partons |-> event_partons]

\* the value False a reader returns at the end of its stream
Sentinel == [falsy |-> TRUE, hadrons |-> NoneEvent, partons |-> NoneEvent]

\* `if self.event_list_partons:` (None and the empty list are falsy)
HasPartons(r) == ~r.event_list_partons.none /\ Len(r.event_list_partons.list) > 0

\* what ReaderAscii.next_event does once the cursor has reached n_events
AsciiAtEnd(r) == [exit |-> TRUE, event |-> Sentinel, reader |-> r]

\* (mutant) the event is returned but the cursor is left where it was
AsciiNextEventStuck(r) ==
    IF r.current_event < r.n_events
    THEN [exit |-> FALSE,
          event |-> EventAscii(r.event_list_hadrons[r.current_event + 1],
                               IF HasPartons(r)
                               THEN r.event_list_partons.list[r.current_event + 1]
                               ELSE EmptyStr),
          reader |-> r]
    ELSE AsciiAtEnd(r)

AsciiNextEvent(r) ==
    IF r.current_event < r.n_events
    THEN LET cur == r.current_event + 1
         IN  [exit |-> FALSE,
              event |-> EventAscii(r.event_list_hadrons[cur],
                                   IF HasPartons(r)
                                   THEN r.event_list_partons.list[cur]
                                   ELSE EmptyStr),
              reader |-> [r EXCEPT !.current_event = cur]]
    ELSE AsciiAtEnd(r)

(***************************************************************************)
(* ReaderHepMC and ReaderBase.__call__.                                    *)
(* A HepMC event begins at an hdr line ("E ..."); its particle lines       *)
(* follow; the cross-section line is an attribute line inside the event.   *)
(***************************************************************************)
RECURSIVE HepMCBlocks(_, _, _, _)
HepMCBlocks(lines, i, event_list, event) ==
    IF i > Len(lines)
    THEN IF event.tag = "None" THEN event_list ELSE Append(event_list, event)
    ELSE IF lines[i].kind = "hdr"
         THEN HepMCBlocks(lines, i + 1,
                          IF event.tag = "None" THEN event_list
                          ELSE Append(event_list, event),
                          ListEvent(<<>>))
         ELSE IF lines[i].kind = "ptl" /\ event.tag = "list"
              THEN HepMCBlocks(lines, i + 1, event_list,
                               ListEvent(Append(event.recs, i)))
              ELSE HepMCBlocks(lines, i + 1, event_list, event)

ReaderHepMCInit(input_file) ==
    IF ~input_file.exists
    THEN [fatal |-> "open_or_parse", reader |-> NoReader]
    ELSE LET evs == HepMCBlocks(input_file.lines, 1, <<>>, NoneEvent)
         IN  [fatal |-> "",
              reader |-> [type |-> "hepmc",
                          event_list_hadrons |-> evs,
                          event_list_partons |-> [none |-> TRUE, list |-> <<>>],
                          current_event |-> 0,
                          n_events |-> Len(evs)]]

HepMCNextEvent(r) ==
    IF r.current_event < r.n_events
    THEN [exit |-> FALSE,
          event |-> EventAscii(r.event_list_hadrons[r.current_event + 1], EmptyStr),
          reader |-> [r EXCEPT !.current_event = r.current_event + 1]]
    ELSE [exit |-> FALSE, event |-> Sentinel, reader |-> r]

\* reader.next_event(), dispatched on the reader built at construction
next_event(r) == IF r.type = "hepmc" THEN HepMCNextEvent(r) ELSE AsciiNextEvent(r)

(***************************************************************************)
(* Strings are sequences of characters, so that the concatenations that    *)
(* build dir_label can coincide as they can in the program.                *)
(***************************************************************************)
Digit(d) ==
    CASE d = 0 -> "0" [] d = 1 -> "1" [] d = 2 -> "2" [] d = 3 -> "3"
      [] d = 4 -> "4" [] d = 5 -> "5" [] d = 6 -> "6" [] d = 7 -> "7"
      [] d = 8 -> "8" [] OTHER -> "9"

RECURSIVE IntToStr(_)
IntToStr(n) ==
    IF n < 10 THEN <<Digit(n)>> ELSE IntToStr(n \div 10) \o <<Digit(n % 10)>>

\* a value of a scan axis, as YAML loads it: an integer or a string
IntVal(n) == [t |-> "int", n |-> n, s |-> <<>>]
StrVal(cs) == [t |-> "str", n |-> 0, s |-> cs]

\* str(value)
Str(v) == IF v.t = "int" THEN IntToStr(v.n) ELSE v.s

(***************************************************************************)
(* The configuration: parameter_scan is the ordered dictionary of the scan *)
(* axes, each with a label and a list of values; the axis under the key    *)
(* pt_hat_bins holds the pt-hat bin edges.                                 *)
(***************************************************************************)
PtHatAxis(values) == [key |-> "pt_hat_bins", label |-> <<"p", "t">>, values |-> values]
AuxAxis(values) == [key |-> "aux", label |-> <<"a">>, values |-> values]

PtHatEdgeLists ==
    { <<IntVal(10)>>, <<IntVal(10), IntVal(20)>>,
      <<IntVal(10), IntVal(20), IntVal(30)>> }
AuxValueLists ==
    { <<>>, <<StrVal(<<"A">>)>>, <<StrVal(<<"A">>), StrVal(<<"B">>)>>,
      <<StrVal(<<"A">>), StrVal(<<"A">>)>> }

ParameterScans ==
    {<<PtHatAxis(e)>> : e \in PtHatEdgeLists}
    \cup {<<PtHatAxis(e), AuxAxis(a)>> : e \in PtHatEdgeLists, a \in AuxValueLists}
    \cup {<<AuxAxis(a), PtHatAxis(e)>> : e \in PtHatEdgeLists, a \in AuxValueLists}
    \cup {<<AuxAxis(<<StrVal(<<"A">>), StrVal(<<"B">>), StrVal(<<"C">>)>>),
             PtHatAxis(<<IntVal(10), IntVal(20)>>)>>}

NoConfig ==
    [parameter_scan |-> <<>>, n_event_max |-> 0, reader_type |-> "none",
     scale_histograms |-> FALSE, merge_histograms |-> FALSE,
     has_init_hook |-> FALSE, has_event_hook |-> FALSE]

Configs ==
    [parameter_scan : ParameterScans,
     n_event_max : {1, MaxEvents},
     reader_type : {"dat", "hepmc"},
     scale_histograms : BOOLEAN,
     merge_histograms : BOOLEAN,
     has_init_hook : BOOLEAN,     \* the subclass overrides initialize_user_output_objects
     has_event_hook : BOOLEAN]    \* the subclass overrides analyze_event

\* self.pt_hat_bins = parameter_scan_dict['pt_hat_bins']['values']
pt_hat_bins(cfg) ==
    LET i == CHOOSE i \in 1..Len(cfg.parameter_scan) :
                 cfg.parameter_scan[i].key = "pt_hat_bins"
    IN  cfg.parameter_scan[i].values

n_pt_hat_bins(cfg) == Len(pt_hat_bins(cfg)) - 1

parameter_labels(cfg) ==
    [i \in 1..Len(cfg.parameter_scan) |-> cfg.parameter_scan[i].label]
parameter_values(cfg) ==
    [i \in 1..Len(cfg.parameter_scan) |-> cfg.parameter_scan[i].values]

\* itertools.product(*lists): the last list varies fastest
RECURSIVE Product(_)
Product(lists) ==
    IF lists = <<>> THEN << <<>> >>
    ELSE LET h == Head(lists)
             rest == Product(Tail(lists))
         IN  [p \in 1..(Len(h) * Len(rest)) |->
                 <<h[((p - 1) \div Len(rest)) + 1]>>
                     \o rest[((p - 1) % Len(rest)) + 1]]

\* int(len(parameter_combinations) / len(self.pt_hat_bins))
CombinationsPerPtHat(cfg) ==
    Len(Product(parameter_values(cfg))) \div Len(pt_hat_bins(cfg))

\* combos[:-n]  (with n = 0 this is combos[:0], the empty list)
DropLast(combos, n) ==
    IF n = 0 THEN <<>>
    ELSE SubSeq(combos, 1, IF Len(combos) > n THEN Len(combos) - n ELSE 0)

Combinations(cfg) ==
    DropLast(Product(parameter_values(cfg)), CombinationsPerPtHat(cfg))

\* self.pt_hat_bin = int(index / n_combinations_per_pthat), index from 0
PtHatBinOfIndex(cfg, idx) == idx \div CombinationsPerPtHat(cfg)

\* dir_label of a combination: str(pt_hat_bin) for position 0, then
\* '_' + label + str(value) for every later position
RECURSIVE LabelTail(_, _, _)
LabelTail(labels, combination, i) ==
    IF i > Len(combination) THEN <<>>
    ELSE <<"_">> \o labels[i] \o Str(combination[i])
             \o LabelTail(labels, combination, i + 1)

DirLabel(cfg, bin, combination) ==
    IntToStr(bin) \o LabelTail(parameter_labels(cfg), combination, 2)

(***************************************************************************)
(* AnalyzeJetscapeEvents_Base.cross_section.  A float is mantissa m times  *)
(* ten to the power e; the value returned is a float or a str (a line).    *)
(***************************************************************************)
HepMCUnitExp == 9          \* float(split[3]) / 1e9

FloatVal(m, e) == [type |-> "float", m |-> m, e |-> e, line |-> HdrLine]
LineVal(line) == [type |-> "str", m |-> 0, e |-> 0, line |-> line]
ZeroFloat == FloatVal(0, 0)

\* what the 'dat' branch appends for a sigmaGen line; xsec = float(split[2])
DatAppended(line) == LineVal(line)

\* what the 'hepmc' branch appends for a GenCrossSection line
HepMCAppended(line) == FloatVal(line.val, 0 - HepMCUnitExp)

RECURSIVE ScanCrossSections(_, _, _, _)
ScanCrossSections(lines, i, reader_type, cross_sections) ==
    IF i > Len(lines) THEN cross_sections
    ELSE ScanCrossSections(lines, i + 1, reader_type,
            IF lines[i].kind = "xsec"
            THEN IF reader_type = "hepmc"
                 THEN Append(cross_sections, HepMCAppended(lines[i]))
                 ELSE IF reader_type = "dat"
                      THEN Append(cross_sections, DatAppended(lines[i]))
                      ELSE cross_sections
            ELSE cross_sections)

\* (mutant) an empty list of cross sections silently gives the default 0
EmptyCrossSectionsDefault(cross_sections) ==
    [ok |-> TRUE, value |-> ZeroFloat]

\* cross_sections[-1] of an empty list raises IndexError
EmptyCrossSections(cross_sections) ==
    [ok |-> FALSE, value |-> ZeroFloat]

cross_section(file, reader_type) ==
    LET cross_sections == ScanCrossSections(file.lines, 1, reader_type, <<>>)
    IN  IF Len(cross_sections) = 0
        THEN EmptyCrossSections(cross_sections)
        ELSE [ok |-> TRUE, value |-> cross_sections[Len(cross_sections)]]

(***************************************************************************)
(* The per-bin output file: hNevents and hCrossSection are histograms with *)
(* n_pt_hat_bins bins (created empty by initialize_output_objects), hist   *)
(* is the user's aggregation object, scaled is what the Scaler made of it. *)
(***************************************************************************)
EmptyTH1(cfg, zero) == [slot \in 1..n_pt_hat_bins(cfg) |-> zero]

SetBinContent(h, slot, value) ==
    [b \in DOMAIN h |-> IF b = slot THEN value ELSE h[b]]

\* the bin of hNevents / hCrossSection that write_output_objects fills
HistSlot(bin) == bin + 1

\* the number write_output_objects stores in hNevents
NeventsStored(eid, h) == eid

OutputFile(cfg, bin, xsec, eid, h) ==
    [hNevents |-> SetBinContent(EmptyTH1(cfg, 0), HistSlot(bin), NeventsStored(eid, h)),
     hCrossSection |-> SetBinContent(EmptyTH1(cfg, ZeroFloat), HistSlot(bin), xsec),
     hist |-> h,
     is_scaled |-> FALSE,
     scaled |-> [num |-> 0, e |-> 0, den |-> 1]]

\* outputs with the file at label (re)created
Persist(outs, label, file) ==
    [l \in (DOMAIN outs) \cup {label} |-> IF l = label THEN file ELSE outs[l]]

\* scale_histograms.scale_histograms(output_dir_bin, pt_hat_bin): every
\* accumulated quantity times cross_section / event_count, both read from
\* the file's hCrossSection and hNevents at the bin of pt_hat_bin
ScaledFile(file, bin) ==
    [file EXCEPT !.is_scaled = TRUE,
                 !.scaled = [num |-> file.hist * file.hCrossSection[bin + 1].m,
                             e |-> file.hCrossSection[bin + 1].e,
                             den |-> file.hNevents[bin + 1]]]

\* the Scaler refuses a bin whose event count is 0 (a zero divisor)
ScalerFails(file, bin) == file.hNevents[bin + 1] = 0

\* the pt-hat bin the driver hands to the Scaler
ScalerBinArg(bin) == bin

(***************************************************************************)
(* State.                                                                  *)
(***************************************************************************)
VARIABLES
    pc,                  \* position of the program
    fatal,               \* "" or the reason the process was terminated
    input_file,          \* contents of the (hadron) file the reader is bound to
    partons_file,        \* contents of the parton file given to ReaderAscii
    reader,              \* the Reader object
    gen_n,               \* n_events of the running reader(n_events=...) call
    gen_i,               \* events that call has produced so far
    yielded,             \* the events it has produced, in order
    config,              \* the loaded configuration (initialize_config)
    parameter_combinations, \* the grid, after the last pt-hat edge is removed
    index,               \* loop index of the grid point being processed
    pt_hat_bin,          \* self.pt_hat_bin
    dir_label,           \* identifier of the grid point, a string
    event_id,            \* self.event_id
    hist,                \* the user's aggregation object: entries filled
    outputs,             \* persisted AnalysisResults.root, by dir_label
    n_merge,             \* invocations of the merge tool (hadd)
    merge_inputs,        \* the output files the glob of the merge command matched
    n_scale,             \* invocations of the Scaler
    steps                \* what was done for the current grid point, in order

readerVars == <<input_file, partons_file, reader, gen_n, gen_i, yielded>>
driverVars == <<config, parameter_combinations, index, pt_hat_bin, dir_label,
                event_id, hist, outputs, n_merge, merge_inputs, n_scale, steps>>
vars == <<pc, fatal, readerVars, driverVars>>

(***************************************************************************)
(* SpecReader: ReaderAscii(hadrons, partons) followed by one               *)
(* reader(n_events = n) iteration.                                         *)
(***************************************************************************)
ReaderLines == {HdrLine, PtlLine, XsecLine(1)}
ReaderFiles == {NoFile} \cup {FileOf(ls) : ls \in SeqsUpTo(ReaderLines, MaxLines)}

InitReader ==
    /\ pc = "new"
    /\ fatal = ""
    /\ input_file \in ReaderFiles
    /\ partons_file \in ReaderFiles
    /\ reader = NoReader
    /\ gen_n = 0
    /\ gen_i = 0
    /\ yielded = <<>>
    /\ config = NoConfig
    /\ parameter_combinations = <<>>
    /\ index = 0
    /\ pt_hat_bin = 0
    /\ dir_label = <<>>
    /\ event_id = 0
    /\ hist = 0
    /\ outputs = <<>>
    /\ n_merge = 0
    /\ merge_inputs = {}
    /\ n_scale = 0
    /\ steps = <<>>

RConstruct ==
    /\ pc = "new"
    /\ LET c == ReaderAsciiInit(input_file, partons_file)
       IN  /\ reader' = c.reader
           /\ fatal' = c.fatal
           /\ pc' = IF c.fatal = "" THEN "built" ELSE "fatal"
    /\ UNCHANGED <<input_file, partons_file, gen_n, gen_i, yielded, driverVars>>

RCall ==
    /\ pc = "built"
    /\ \E n \in 0..MaxEvents :
         /\ gen_n' = n
         /\ gen_i' = 0
    /\ pc' = "iter"
    /\ UNCHANGED <<fatal, input_file, partons_file, reader, yielded, driverVars>>

RNext ==
    /\ pc = "iter"
    /\ gen_i < gen_n
    /\ LET r == next_event(reader)
       IN  /\ ~r.exit
           /\ reader' = r.reader
           /\ yielded' = Append(yielded, r.event)
           /\ gen_i' = gen_i + 1
    /\ UNCHANGED <<pc, fatal, input_file, partons_file, gen_n, driverVars>>

RExit ==
    /\ pc = "iter"
    /\ gen_i < gen_n
    /\ next_event(reader).exit
    /\ pc' = "fatal"
    /\ fatal' = "sys_exit_next_event"
    /\ UNCHANGED <<readerVars, driverVars>>

RStop ==
    /\ pc = "iter"
    /\ gen_i = gen_n
    /\ pc' = "done"
    /\ UNCHANGED <<fatal, readerVars, driverVars>>

\* the reader is called once more after a call has ended
RCallAgain ==
    /\ pc = "done"
    /\ \E n \in 0..MaxEvents :
         /\ gen_n' = n
         /\ gen_i' = 0
    /\ pc' = "iter"
    /\ UNCHANGED <<fatal, input_file, partons_file, reader, yielded, driverVars>>

NextReader == RConstruct \/ RCall \/ RNext \/ RExit \/ RStop \/ RCallAgain

SpecReader == InitReader /\ [][NextReader]_vars

(***************************************************************************)
(* Spec: one run of AnalyzeJetscapeEvents_Base.analyze_jetscape_events.    *)
(***************************************************************************)
DriverLines == {HdrLine, PtlLine} \cup {XsecLine(v) : v \in XsecValues}
DriverFiles == {NoFile} \cup {FileOf(ls) : ls \in SeqsUpTo(DriverLines, MaxBinLines)}

Init ==
    /\ pc = "start"
    /\ fatal = ""
    /\ input_file = NoFile
    /\ partons_file = NoFile
    /\ reader = NoReader
    /\ gen_n = 0
    /\ gen_i = 0
    /\ yielded = <<>>
    /\ config \in Configs
    /\ parameter_combinations = <<>>
    /\ index = 0
    /\ pt_hat_bin = 0
    /\ dir_label = <<>>
    /\ event_id = 0
    /\ hist = 0
    /\ outputs = <<>>
    /\ n_merge = 0
    /\ merge_inputs = {}
    /\ n_scale = 0
    /\ steps = <<>>

\* lines 83-91: the list of parameter combinations
Enumerate ==
    /\ pc = "start"
    /\ parameter_combinations' = Combinations(config)
    /\ index' = 0
    /\ pc' = "loop"
    /\ UNCHANGED <<fatal, readerVars, config, pt_hat_bin, dir_label, event_id,
                   hist, outputs, n_merge, merge_inputs, n_scale, steps>>

\* the reader run_jetscape_analysis constructs on self.input_file
MakeReader(cfg, file) ==
    IF cfg.reader_type = "hepmc" THEN ReaderHepMCInit(file)
    ELSE ReaderAsciiInit(file, NoFile)

\* the entries of `steps`
ReaderStep == [step |-> "reader", k |-> 0]
InitStep == [step |-> "init", k |-> 0]
EventStep(k) == [step |-> "event", k |-> k]
XsecStep == [step |-> "xsec", k |-> 0]
PersistStep == [step |-> "persist", k |-> 0]

\* run_jetscape_analysis, lines 145-151: the reader, then the initialize hook
BinStartSteps(reader_built) ==
    IF reader_built THEN <<ReaderStep, InitStep>> ELSE <<ReaderStep>>

\* (mutant) the output file is written before the cross section is read
WriteStepsPersistFirst(stored) ==
    IF stored THEN <<PersistStep, XsecStep>> ELSE <<XsecStep>>

\* write_output_objects, lines 215-236: the cross section, then the file
WriteSteps(stored) ==
    IF stored THEN <<XsecStep, PersistStep>> ELSE <<XsecStep>>

\* (mutant) the loop skips a combination
NextIndexSkips(i) == i + 2

\* the loop of line 94 goes on to the next combination
NextIndex(i) == i + 1

\* lines 94-127 and 144-156: the head of one loop iteration, up to the call
\* reader(n_events = n_event_max); `file` is what the bin's input path holds
StartBin ==
    /\ pc = "loop"
    /\ index < Len(parameter_combinations)
    /\ \E file \in DriverFiles :
         LET bin == PtHatBinOfIndex(config, index)
             c == MakeReader(config, file)
         IN  /\ pt_hat_bin' = bin
             /\ dir_label' = DirLabel(config, bin, parameter_combinations[index + 1])
             /\ input_file' = file
             /\ reader' = c.reader
             /\ steps' = BinStartSteps(c.fatal = "")
             /\ fatal' = IF c.fatal # "" THEN c.fatal
                         ELSE IF ~config.has_init_hook
                              THEN "not_implemented_initialize"
                              ELSE ""
             /\ pc' = IF c.fatal = "" /\ config.has_init_hook
                      THEN "events" ELSE "fatal"
    /\ hist' = 0
    /\ gen_n' = config.n_event_max
    /\ gen_i' = 0
    /\ UNCHANGED <<partons_file, yielded, config, parameter_combinations, index,
                   event_id, outputs, n_merge, merge_inputs, n_scale>>

\* lines 156-173: the reader yields an event; get_event_info, analyze_event
ProcessEvent ==
    /\ pc = "events"
    /\ gen_i < gen_n
    /\ config.has_event_hook
    /\ LET r == next_event(reader)
       IN  /\ ~r.exit
           /\ ~r.event.falsy
           /\ reader' = r.reader
           /\ steps' = Append(steps, EventStep(r.reader.current_event))
    /\ gen_i' = gen_i + 1
    /\ event_id' = event_id + 1
    /\ hist' = hist + 1
    /\ UNCHANGED <<pc, fatal, input_file, partons_file, gen_n, yielded, config,
                   parameter_combinations, index, pt_hat_bin, dir_label,
                   outputs, n_merge, merge_inputs, n_scale>>

\* lines 168-171 and 277-278: get_event_info, then the analyze_event of the
\* base class, which raises NotImplementedError
EventHookMissing ==
    /\ pc = "events"
    /\ gen_i < gen_n
    /\ ~config.has_event_hook
    /\ LET r == next_event(reader)
       IN  /\ ~r.exit
           /\ ~r.event.falsy
           /\ reader' = r.reader
           /\ steps' = Append(steps, EventStep(r.reader.current_event))
    /\ event_id' = event_id + 1
    /\ pc' = "fatal"
    /\ fatal' = "not_implemented_analyze_event"
    /\ UNCHANGED <<input_file, partons_file, gen_n, gen_i, yielded, config,
                   parameter_combinations, index, pt_hat_bin, dir_label, hist,
                   outputs, n_merge, merge_inputs, n_scale>>

\* (mutant) the sentinel is handed to the hooks and counted like an event
EndOfFileCounted ==
    /\ pc = "events"
    /\ gen_i < gen_n
    /\ LET r == next_event(reader)
       IN  ~r.exit /\ r.event.falsy
    /\ pc' = "write"
    /\ event_id' = event_id + 1
    /\ hist' = hist + 1
    /\ UNCHANGED <<fatal, readerVars, config, parameter_combinations, index,
                   pt_hat_bin, dir_label, outputs, n_merge, merge_inputs,
                   n_scale, steps>>

\* lines 158-165: the reader yields the sentinel; the loop is left
EndOfFile ==
    /\ pc = "events"
    /\ gen_i < gen_n
    /\ LET r == next_event(reader)
       IN  ~r.exit /\ r.event.falsy
    /\ pc' = "write"
    /\ UNCHANGED <<fatal, readerVars, driverVars>>

\* (mutant) the exit of the reader is caught and the bin goes on
ReaderExitSwallowed ==
    /\ pc = "events"
    /\ gen_i < gen_n
    /\ next_event(reader).exit
    /\ pc' = "write"
    /\ fatal' = "sys_exit_next_event"
    /\ UNCHANGED <<readerVars, driverVars>>

\* next_event ends the process
ReaderExit ==
    /\ pc = "events"
    /\ gen_i < gen_n
    /\ next_event(reader).exit
    /\ pc' = "fatal"
    /\ fatal' = "sys_exit_next_event"
    /\ UNCHANGED <<readerVars, driverVars>>

\* n_event_max events were read
MaxReached ==
    /\ pc = "events"
    /\ gen_i = gen_n
    /\ pc' = "write"
    /\ UNCHANGED <<fatal, readerVars, driverVars>>

\* lines 212-236: write_output_objects
WriteOutput ==
    /\ pc = "write"
    /\ LET xs == cross_section(input_file, config.reader_type)
       IN  IF ~xs.ok
           THEN /\ pc' = "fatal"
                /\ fatal' = "index_error_cross_section"
                /\ outputs' = outputs
                /\ steps' = steps \o WriteSteps(FALSE)
           ELSE IF xs.value.type # "float"
           THEN /\ pc' = "fatal"          \* SetBinContent(int, str): TypeError
                /\ fatal' = "type_error_set_bin_content"
                /\ outputs' = outputs
                /\ steps' = steps \o WriteSteps(FALSE)
           ELSE /\ pc' = "scale"
                /\ fatal' = fatal
                /\ outputs' = Persist(outputs, dir_label,
                                      OutputFile(config, pt_hat_bin, xs.value,
                                                 event_id, hist))
                /\ steps' = steps \o WriteSteps(TRUE)
    /\ UNCHANGED <<readerVars, config, parameter_combinations, index, pt_hat_bin,
                   dir_label, event_id, hist, n_merge, merge_inputs, n_scale>>

\* (mutant) a failure of the Scaler is caught and the run goes on
ScaleBinSwallowed ==
    /\ pc = "scale"
    /\ config.scale_histograms
    /\ n_scale' = n_scale + 1
    /\ LET bin == ScalerBinArg(pt_hat_bin)
           file == outputs[dir_label]
       IN  outputs' = IF ScalerFails(file, bin) THEN outputs
                      ELSE Persist(outputs, dir_label, ScaledFile(file, bin))
    /\ pc' = "loop"
    /\ index' = NextIndex(index)
    /\ UNCHANGED <<fatal, readerVars, config, parameter_combinations, pt_hat_bin,
                   dir_label, event_id, hist, n_merge, merge_inputs, steps>>

\* lines 130-132: scale this bin's output
ScaleBin ==
    /\ pc = "scale"
    /\ config.scale_histograms
    /\ n_scale' = n_scale + 1
    /\ LET bin == ScalerBinArg(pt_hat_bin)
           file == outputs[dir_label]
       IN  IF ScalerFails(file, bin)
           THEN /\ pc' = "fatal"
                /\ fatal' = "zero_event_count"
                /\ UNCHANGED <<outputs, index>>
           ELSE /\ pc' = "loop"
                /\ fatal' = fatal
                /\ outputs' = Persist(outputs, dir_label, ScaledFile(file, bin))
                /\ index' = NextIndex(index)
    /\ UNCHANGED <<readerVars, config, parameter_combinations, pt_hat_bin,
                   dir_label, event_id, hist, n_merge, merge_inputs, steps>>

\* (mutant) the Scaler is never called
SkipScaleAlways ==
    /\ pc = "scale"
    /\ pc' = "loop"
    /\ index' = NextIndex(index)
    /\ UNCHANGED <<fatal, readerVars, config, parameter_combinations, pt_hat_bin,
                   dir_label, event_id, hist, outputs, n_merge, merge_inputs,
                   n_scale, steps>>

SkipScale ==
    /\ pc = "scale"
    /\ ~config.scale_histograms
    /\ pc' = "loop"
    /\ index' = NextIndex(index)
    /\ UNCHANGED <<fatal, readerVars, config, parameter_combinations, pt_hat_bin,
                   dir_label, event_id, hist, outputs, n_merge, merge_inputs,
                   n_scale, steps>>

\* (mutant) the merge command sits inside the loop over the combinations
MergeInsideLoop ==
    /\ pc = "loop"
    /\ config.merge_histograms
    /\ n_merge' = n_merge + 1
    /\ merge_inputs' = DOMAIN outputs
    /\ pc' = "done"
    /\ UNCHANGED <<fatal, readerVars, config, parameter_combinations, index,
                   pt_hat_bin, dir_label, event_id, hist, outputs, n_scale, steps>>

\* lines 135-137: after the loop, hadd over <output_dir>*/AnalysisResults.root
Merge ==
    /\ pc = "loop"
    /\ index = Len(parameter_combinations)
    /\ config.merge_histograms
    /\ n_merge' = n_merge + 1
    /\ merge_inputs' = DOMAIN outputs
    /\ pc' = "done"
    /\ UNCHANGED <<fatal, readerVars, config, parameter_combinations, index,
                   pt_hat_bin, dir_label, event_id, hist, outputs, n_scale, steps>>

Finish ==
    /\ pc = "loop"
    /\ index = Len(parameter_combinations)
    /\ ~config.merge_histograms
    /\ pc' = "done"
    /\ UNCHANGED <<fatal, readerVars, driverVars>>

Next ==
    \/ Enumerate \/ StartBin \/ ProcessEvent \/ EventHookMissing
    \/ EndOfFile \/ ReaderExit
    \/ MaxReached \/ WriteOutput \/ ScaleBin \/ SkipScale \/ Merge \/ Finish

Spec == Init /\ [][Next]_vars

(***************************************************************************)
(* Claims about the driver.                                                *)
(***************************************************************************)
XsecLines(file) == {i \in 1..Len(file.lines) : file.lines[i].kind = "xsec"}
LastXsecLine(file) == CHOOSE i \in XsecLines(file) : \A j \in XsecLines(file) : j <= i

\* the number the last metadata line reports, in the unit of its format
LastReported(file, reader_type) ==
    FloatVal(file.lines[LastXsecLine(file)].val,
             IF reader_type = "hepmc" THEN 0 - HepMCUnitExp ELSE 0)

\* C3: on an input whose metadata lines report v1..vn (n >= 1), in either
\* format, cross_section() returns the number vn of the last matching line,
\* and that number is what write_output_objects stores as the bin's cross
\* section.
C3_LastCrossSectionStored ==
    (pc \in {"write", "scale"} /\ XsecLines(input_file) # {}) =>
        /\ cross_section(input_file, config.reader_type).value
               = LastReported(input_file, config.reader_type)
        /\ pc = "scale" =>
               outputs[dir_label].hCrossSection[HistSlot(pt_hat_bin)]
                   = LastReported(input_file, config.reader_type)

\* C4: the event count persisted for a grid point is the number of events
\* the per-event hook consumed for that grid point alone.
C4_EventCountPerBin ==
    pc = "scale" => outputs[dir_label].hNevents[HistSlot(pt_hat_bin)] = hist

\* C5: with scaling enabled, a scaled bin holds its accumulated content times
\* the bin's cross section divided by the bin's event count (the events
\* counted for that grid point): scaled = hist * cross_section / count.
\* (Stated for grid points that consumed at least one event.)
C5_ScaledByBinCount ==
    (pc = "loop" /\ index > 0 /\ config.scale_histograms /\ hist > 0) =>
        LET f == outputs[dir_label]
            x == LastReported(input_file, config.reader_type)
        IN  /\ f.is_scaled
            /\ f.scaled.e = x.e
            /\ f.scaled.num * hist = hist * x.m * f.scaled.den

\* position of the pt-hat axis in the scan dictionary, and the other axes
PtHatPos(cfg) ==
    CHOOSE i \in 1..Len(cfg.parameter_scan) : cfg.parameter_scan[i].key = "pt_hat_bins"
AuxPositions(cfg) == (1..Len(cfg.parameter_scan)) \ {PtHatPos(cfg)}

RECURSIVE ProductOfSizes(_, _)
ProductOfSizes(cfg, positions) ==
    IF positions = {} THEN 1
    ELSE LET i == CHOOSE i \in positions : TRUE
         IN  Len(cfg.parameter_scan[i].values) * ProductOfSizes(cfg, positions \ {i})

\* index (from 0) of the edge a combination holds on the pt-hat axis
EdgeIndex(cfg, combination) ==
    (CHOOSE i \in 1..Len(pt_hat_bins(cfg)) :
         pt_hat_bins(cfg)[i] = combination[PtHatPos(cfg)]) - 1

RECURSIVE AuxLabel(_, _, _)
AuxLabel(cfg, combination, i) ==
    IF i > Len(combination) THEN <<>>
    ELSE (IF i = PtHatPos(cfg) THEN <<>>
          ELSE <<"_">> \o cfg.parameter_scan[i].label \o Str(combination[i]))
         \o AuxLabel(cfg, combination, i + 1)

\* C6: E pt-hat edges and auxiliary axes of sizes a1..am give exactly
\* (E-1) * a1 * ... * am grid points, none of them on the last edge, and the
\* identifier of a grid point is its pt-hat bin index followed by
\* '_<label><value>' for every auxiliary axis.
C6_GridEnumeration ==
    pc # "start" =>
        /\ Len(parameter_combinations)
               = (Len(pt_hat_bins(config)) - 1)
                     * ProductOfSizes(config, AuxPositions(config))
        /\ \A k \in 1..Len(parameter_combinations) :
               EdgeIndex(config, parameter_combinations[k])
                   < Len(pt_hat_bins(config)) - 1
        /\ pc \in {"events", "write", "scale"} =>
               dir_label
                   = IntToStr(EdgeIndex(config, parameter_combinations[index + 1]))
                         \o AuxLabel(config, parameter_combinations[index + 1], 1)

\* C6 read for the configurations that list pt_hat_bins first
C6_GridEnumerationPtHatFirst == PtHatPos(config) = 1 => C6_GridEnumeration

\* C10: when the input of a bin holds no cross-section line, finalizing the
\* bin ends the run: nothing is stored for the bin, no default value is used.
C10_NoCrossSectionIsFatal ==
    /\ [][(pc = "write" /\ XsecLines(input_file) = {})
            => (pc' = "fatal" /\ fatal' = "index_error_cross_section"
                /\ outputs' = outputs)]_vars
    /\ [](pc = "fatal" => ~ENABLED Next)

C10_Witness ==
    /\ pc = "fatal"
    /\ fatal = "index_error_cross_section"
    /\ XsecLines(input_file) = {}
    /\ event_id > 0

(***************************************************************************)
(* Reference reading of a tagged-block file, used to state the claims:     *)
(* the k-th event block is the run of non-marker lines between the k-th    *)
(* marker line and the next marker line (or the end of the file).          *)
(***************************************************************************)
MarkerLines(lines) == {i \in 1..Len(lines) : StartsWithHash(lines[i])}
MarkerCount(lines) == Cardinality(MarkerLines(lines))

\* line number of the k-th marker; Len+1 stands for the end of the file
MarkerPos(lines, k) ==
    IF k > MarkerCount(lines) THEN Len(lines) + 1
    ELSE CHOOSE i \in MarkerLines(lines) :
             Cardinality({j \in MarkerLines(lines) : j <= i}) = k

BlockOf(lines, k) ==
    LET a == MarkerPos(lines, k)
        b == MarkerPos(lines, k + 1)
    IN  ListEvent([j \in 1..(b - a - 1) |-> a + j])

TrueBlocks(lines) == [k \in 1..MarkerCount(lines) |-> BlockOf(lines, k)]

ReaderBuilt == pc \in {"built", "iter", "done"} /\ reader.type = "dat"

\* C1: for a file with N marker lines parse_event returns exactly N events,
\* the k-th holding as many particle records as there are non-marker lines
\* between the k-th marker and the next one (or the end of the file).
C1_ParseEventCounts ==
    ReaderBuilt =>
        /\ Len(reader.event_list_hadrons) = MarkerCount(input_file.lines)
        /\ \A k \in 1..MarkerCount(input_file.lines) :
               Len(reader.event_list_hadrons[k].recs)
                   = Len(BlockOf(input_file.lines, k).recs)

\* C2: a reader asked for more events than its file holds yields every event
\* once, then the falsy end-of-stream sentinel; the process is not terminated.
\* (Stated for files that hold at least one event.)
C2_ExhaustionYieldsSentinel ==
    (pc \in {"iter", "done", "fatal"} /\ reader.type = "dat"
        /\ MarkerCount(input_file.lines) >= 1
        /\ gen_n > reader.n_events)
    => /\ fatal = ""
       /\ pc = "done" =>
             /\ Len(yielded) > reader.n_events
             /\ \A k \in 1..reader.n_events : ~yielded[k].falsy
             /\ yielded[reader.n_events + 1].falsy

\* C7: a ReaderAscii built from a hadron file and a parton file that both
\* exist and hold different numbers of events ends the process; no reader is
\* produced and nothing is yielded.  (Stated for files that hold at least
\* one event each.)
C7_MismatchIsFatal ==
    (pc # "new" /\ input_file.exists /\ partons_file.exists
        /\ MarkerCount(input_file.lines) >= 1
        /\ MarkerCount(partons_file.lines) >= 1
        /\ MarkerCount(input_file.lines) # MarkerCount(partons_file.lines))
    => (pc = "fatal" /\ reader = NoReader /\ yielded = <<>>)

\* C8: when both files pass the event-count check, the k-th event yielded
\* holds the records of the k-th block of the hadron file and the records of
\* the k-th block of the parton file.  (Stated for files that hold at least
\* one event each.)
C8_OrdinalCorrespondence ==
    (ReaderBuilt /\ partons_file.exists
        /\ MarkerCount(input_file.lines) >= 1
        /\ MarkerCount(partons_file.lines) >= 1) =>
        \A k \in 1..Len(yielded) :
            /\ k <= MarkerCount(input_file.lines)
            /\ k <= MarkerCount(partons_file.lines)
            /\ yielded[k].hadrons = BlockOf(input_file.lines, k)
            /\ yielded[k].partons = BlockOf(partons_file.lines, k)

\* C9: a block with no particle lines is an event of its own: it is counted
\* in n_events and stands at its own ordinal in the event list, wherever in
\* the file it occurs.
C9_EmptyEventKept ==
    ReaderBuilt =>
        \A k \in 1..MarkerCount(input_file.lines) :
            BlockOf(input_file.lines, k).recs = <<>> =>
                /\ reader.n_events = MarkerCount(input_file.lines)
                /\ reader.event_list_hadrons[k] = ListEvent(<<>>)

(***************************************************************************)
(* The driver: failures, scaling and merging                               *)
(***************************************************************************)
\* the output identifier of the k-th grid point (k from 1)
LabelOf(k) ==
    DirLabel(config, PtHatBinOfIndex(config, k - 1), parameter_combinations[k])

\* the event count the persisted file of the current bin holds for its bin
PersistedCount == outputs[dir_label].hNevents[pt_hat_bin + 1]

\* C11: scaling a bin whose persisted event count is 0 ends the run: the
\* file is left unscaled, and the merge step is never reached.
C11_ZeroEventCountIsFatal ==
    /\ [][(pc = "scale" /\ config.scale_histograms /\ PersistedCount = 0)
            => (pc' = "fatal" /\ fatal' = "zero_event_count"
                /\ outputs' = outputs /\ n_merge' = n_merge)]_vars
    /\ [](fatal = "zero_event_count"
            => (~outputs[dir_label].is_scaled /\ n_merge = 0 /\ ~ENABLED Next))

C11_Witness ==
    /\ fatal = "zero_event_count"
    /\ config.merge_histograms
    /\ PersistedCount = 0

\* C12: a run whose strategy lacks the initialize hook or the per-event hook
\* never completes normally, whatever the grid and the input.
C12_MissingHookIsFatal ==
    (~config.has_init_hook \/ ~config.has_event_hook) => pc # "done"

\* C13: a fatal condition ends the run on the spot: the driver stops at the
\* grid point that raised it, nothing more is read, initialized, persisted
\* or scaled, and the merge tool is not invoked.
C13_FatalAbortsRun ==
    fatal # "" => (pc = "fatal" /\ n_merge = 0 /\ merge_inputs = {}
                   /\ ~ENABLED Next)

\* a fatal condition with grid points still to come
C13_Witness ==
    /\ fatal # ""
    /\ index >= 1
    /\ index + 1 < Len(parameter_combinations)

\* C14: with merging enabled the merge tool runs exactly once, after every
\* grid point was persisted (and scaled when scaling is enabled), over all
\* the per-bin outputs; with merging disabled it never runs.
C14_MergeOnceAfterAllBins ==
    /\ n_merge <= 1
    /\ ~config.merge_histograms => n_merge = 0
    /\ pc = "done" => n_merge = (IF config.merge_histograms THEN 1 ELSE 0)
    /\ n_merge = 1 =>
          /\ pc = "done"
          /\ index = Len(parameter_combinations)
          /\ \A k \in 1..Len(parameter_combinations) :
                /\ LabelOf(k) \in DOMAIN outputs
                /\ config.scale_histograms => outputs[LabelOf(k)].is_scaled
          /\ merge_inputs = {LabelOf(k) : k \in 1..Len(parameter_combinations)}

C14_Witness ==
    /\ n_merge = 1
    /\ Len(parameter_combinations) >= 2
    /\ config.scale_histograms

\* C15: with scaling enabled the Scaler runs exactly once per processed grid
\* point, after the persist step of that grid point and before the reader
\* of the next one is constructed; with scaling disabled it never runs.
C15_ScaleOncePerBin ==
    /\ [](IF config.scale_histograms
          THEN n_scale = index + (IF fatal = "zero_event_count" THEN 1 ELSE 0)
          ELSE n_scale = 0)
    /\ [][n_scale' # n_scale
            => (/\ n_scale' = n_scale + 1
                /\ pc = "scale"
                /\ steps[Len(steps)] = PersistStep
                /\ dir_label \in DOMAIN outputs
                /\ reader' = reader)]_vars

C15_Witness ==
    /\ n_scale = 2
    /\ pc = "events"

\* the reader has signalled the end of the stream before n_event_max
AtEndOfStream ==
    /\ pc = "events"
    /\ gen_i < gen_n
    /\ ~next_event(reader).exit
    /\ next_event(reader).event.falsy

Rank(s) ==
    CASE s.step = "reader" -> 1
      [] s.step = "init" -> 2
      [] s.step = "event" -> 3
      [] s.step = "xsec" -> 4
      [] s.step = "persist" -> 5

\* C17: within one grid point: the reader, the initialize hook, the events in
\* file order, the cross section, the output file; the cross section is not
\* read before the last event, the file is not written before the cross
\* section was read.
C17_StepOrderWithinBin ==
    /\ \A i, j \in 1..Len(steps) :
          i < j => /\ Rank(steps[i]) <= Rank(steps[j])
                   /\ Rank(steps[i]) = Rank(steps[j])
                         => (steps[i].step = "event" /\ steps[i].k < steps[j].k)
    /\ \A i \in 1..Len(steps) :
          /\ i = 1 => steps[i] = ReaderStep
          /\ i = 2 => steps[i] = InitStep
          /\ steps[i].step = "event" => steps[i].k = i - 2
          /\ steps[i] = PersistStep => steps[i - 1] = XsecStep
    /\ pc \in {"events", "write"} => Len(steps) = 2 + gen_i
    /\ pc = "scale" => steps[Len(steps)] = PersistStep

C17_Witness ==
    /\ Len(steps) = 5
    /\ steps[3] = EventStep(1)
    /\ steps[5] = PersistStep
    /\ index >= 1

\* C18: the grid points are processed in the order of the enumeration, one
\* at a time: every grid point the loop has left behind was persisted, the
\* one in progress is the next of the enumeration, the loop moves on by one
\* and only from a persisted grid point, and a reader is constructed only at
\* the head of the loop.
C18_GridOrder ==
    /\ [](/\ index <= Len(parameter_combinations)
          /\ \A k \in 1..index : LabelOf(k) \in DOMAIN outputs
          /\ pc \in {"events", "write", "scale"}
                => (/\ index < Len(parameter_combinations)
                    /\ dir_label = LabelOf(index + 1)))
    /\ [][/\ index' \in {index, index + 1}
          /\ index' = index + 1
                => (pc = "scale" /\ steps[Len(steps)] = PersistStep
                    /\ dir_label \in DOMAIN outputs)
          /\ (reader' # reader /\ reader'.current_event = 0)
                => pc = "loop"]_vars

C18_Witness ==
    /\ pc = "events"
    /\ index = 2
    /\ reader.current_event = 1

\* C19: two distinct grid points never have the same output identifier, so
\* no grid point writes over the output of another one.
C19_DistinctOutputIdentifiers ==
    pc = "scale" =>
        \A k \in 1..index :
            parameter_combinations[k] # parameter_combinations[index + 1]
                => LabelOf(k) # dir_label

\* C20: the pt-hat bin index the driver derives from the position of a
\* combination is the position, in the list of pt-hat edges, of the edge
\* the combination holds.
C20_PtHatBinMatchesEdge ==
    pc \in {"events", "write", "scale"} =>
        pt_hat_bin = EdgeIndex(config, parameter_combinations[index + 1])

(***************************************************************************)
(* The cursor of ReaderAscii                                               *)
(***************************************************************************)
\* the partons next_event hands out with the k-th event
PartonsAt(r, k) ==
    IF HasPartons(r) THEN r.event_list_partons.list[k] ELSE EmptyStr

\* C21: over any sequence of next_event calls on one ReaderAscii the cursor
\* stays within 0..n_events; a successful call moves it forward by exactly 1
\* and returns the event at the position it stood on, so the events come in
\* the order of the event list, each at most once, and the cursor never goes
\* back, also when the reader is called again.
C21_CursorAdvancesByOne ==
    /\ [](reader.type = "dat" =>
            /\ 0 <= reader.current_event
            /\ reader.current_event <= reader.n_events
            /\ reader.n_events = Len(reader.event_list_hadrons)
            /\ Len(yielded) = reader.current_event
            /\ \A k \in 1..Len(yielded) :
                   yielded[k] = EventAscii(reader.event_list_hadrons[k],
                                           PartonsAt(reader, k)))
    /\ [][reader.type = "dat" =>
            /\ reader'.current_event \in
                   {reader.current_event, reader.current_event + 1}
            /\ reader'.event_list_hadrons = reader.event_list_hadrons
            /\ reader'.n_events = reader.n_events
            /\ (reader'.current_event = reader.current_event + 1)
                   <=> (Len(yielded') = Len(yielded) + 1)
            /\ (reader'.current_event = reader.current_event + 1)
                   => yielded'[Len(yielded')].hadrons
                          = reader.event_list_hadrons[reader.current_event + 1]]_vars

\* a second call of the reader goes on from where the first one stopped
C21_Witness ==
    /\ pc = "iter"
    /\ gen_i = 1
    /\ Len(yielded) = 2
    /\ reader.current_event = 2
    /\ gen_n = 1
    /\ yielded[1] # yielded[2]

====
